---- MODULE Spec2Model ----
(***************************************************************************)
(* Community forest mapping, GIS service: the compartment partitioner      *)
(* (compartment_generator.py) and the sample plot generator                *)
(* (sample_plot_generator.py).                                             *)
(*                                                                         *)
(* Geometry.  A polygon is a finite set of axis-aligned rectangles with    *)
(* disjoint interiors (a rectilinear region); the empty set is the empty   *)
(* polygon.  Partitioner coordinates are integers counting units of 0.0001 *)
(* (the half width of the cutting ring of _find_bisecting_line), so that   *)
(* every cut of the boundaries drawn in Init falls on an integer.          *)
(***************************************************************************)
EXTENDS Integers, Sequences, FiniteSets, TLC

\* ------------------------------------------------------------------ bounds
\* largest num_compartments a partition request is made with
MaxN == 3
\* most rows of a compartment file
MaxCompartments == 2
\* most plots planned in all by a request that places them at random
MaxRandomPlots == 5

\* ------------------------------------------------------- program constants
\* box(mid_x - 0.0001, ..., mid_x + 0.0001, ...): half width of the ring, in units of 0.0001
LineHalfWidth == 1
\* box(..., miny - 1, ..., maxy + 1): the ring reaches 1 coordinate unit past the bounds
Margin == 10000
\* depth > 10
DepthCap == 10
\* target_area * 0.1, as the fraction 1 / AcceptDen
AcceptDen == 10
\* mean_area * 0.05, as the fraction 1 / ToleranceDen
ToleranceDen == 20
\* area_m2 * sampling_intensity / 10000
HectareDivisor == 10000
\* max_attempts = num_plots * 10
RandomAttemptFactor == 10


\* Python's None where a polygon is expected: a value no polygon equals
None == {[x0 |-> 0, y0 |-> 0, x1 |-> -1, y1 |-> -1]}
\* Python's None where a cutting line is expected
NoLine == [x0 |-> 0, y0 |-> 0, x1 |-> -1, y1 |-> -1]

\* ---------------------------------------------------------------- helpers
Abs(x) == IF x < 0 THEN -x ELSE x
Min2(a, b) == IF a < b THEN a ELSE b
Max2(a, b) == IF a > b THEN a ELSE b
SetMin(S) == CHOOSE x \in S : \A y \in S : x <= y
SetMax(S) == CHOOSE x \in S : \A y \in S : x >= y

\* str(n) of a natural number: its decimal digits, most significant first
DigitChars == <<"0", "1", "2", "3", "4", "5", "6", "7", "8", "9">>
RECURSIVE Decimal(_)
Decimal(n) ==
    IF n < 10 THEN <<DigitChars[n + 1]>>
    ELSE Decimal(n \div 10) \o <<DigitChars[(n % 10) + 1]>>

\* ---------------------------------------------------- geometry primitives
\* shapely.geometry.box(minx, miny, maxx, maxy)
Box(minx, miny, maxx, maxy) == [x0 |-> minx, y0 |-> miny, x1 |-> maxx, y1 |-> maxy]

RectArea(r) == (r.x1 - r.x0) * (r.y1 - r.y0)

\* polygon.area
RECURSIVE Area(_)
Area(p) ==
    IF p = {} THEN 0
    ELSE LET r == CHOOSE x \in p : TRUE IN RectArea(r) + Area(p \ {r})

\* polygon.bounds of a non-empty polygon: (minx, miny, maxx, maxy)
Bounds(p) ==
    [minx |-> SetMin({r.x0 : r \in p}), miny |-> SetMin({r.y0 : r \in p}),
     maxx |-> SetMax({r.x1 : r \in p}), maxy |-> SetMax({r.y1 : r \in p})]

ClipRect(r, b) ==
    Box(Max2(r.x0, b.x0), Max2(r.y0, b.y0), Min2(r.x1, b.x1), Min2(r.y1, b.y1))

\* polygon.intersection(box): the part of positive area
Intersection(p, b) ==
    {ClipRect(r, b) : r \in {s \in p : /\ Max2(s.x0, b.x0) < Min2(s.x1, b.x1)
                                      /\ Max2(s.y0, b.y0) < Min2(s.y1, b.y1)}}

\* two rectangles share a piece of edge of positive length
Touching(r, s) ==
    \/ /\ (r.x1 = s.x0 \/ s.x1 = r.x0)
       /\ Max2(r.y0, s.y0) < Min2(r.y1, s.y1)
    \/ /\ (r.y1 = s.y0 \/ s.y1 = r.y0)
       /\ Max2(r.x0, s.x0) < Min2(r.x1, s.x1)

RECURSIVE Grow(_, _)
Grow(comp, rest) ==
    LET more == {s \in rest : \E r \in comp : Touching(r, s)}
    IN IF more = {} THEN comp ELSE Grow(comp \cup more, rest \ more)

\* the connected pieces of a region
RECURSIVE Components(_)
Components(p) ==
    IF p = {} THEN {}
    ELSE LET seed == CHOOSE r \in p : TRUE
             comp == Grow({seed}, p \ {seed})
         IN {comp} \cup Components(p \ comp)

\* the interiors of two polygons meet
Overlap(p, q) ==
    \E r \in p, s \in q : /\ Max2(r.x0, s.x0) < Min2(r.x1, s.x1)
                          /\ Max2(r.y0, s.y0) < Min2(r.y1, s.y1)

\* ------------------------------------------------------------ Area Bisector
\* a bisector that tries the horizontal cut before the vertical one
FindBisectingLineHorizontalFirst(polygon) ==
    IF polygon = {} THEN NoLine
    ELSE
    LET b == Bounds(polygon)
        mid_x == (b.minx + b.maxx) \div 2
        left == Intersection(polygon, Box(b.minx - Margin, b.miny - Margin, mid_x, b.maxy + Margin))
        right == Intersection(polygon, Box(mid_x, b.miny - Margin, b.maxx + Margin, b.maxy + Margin))
        mid_y == (b.miny + b.maxy) \div 2
        top == Intersection(polygon, Box(b.minx - Margin, mid_y, b.maxx + Margin, b.maxy + Margin))
        bottom == Intersection(polygon, Box(b.minx - Margin, b.miny - Margin, b.maxx + Margin, mid_y))
    IN  IF Area(top) > 0 /\ Area(bottom) > 0
        THEN Box(b.minx - Margin, mid_y - LineHalfWidth, b.maxx + Margin, mid_y + LineHalfWidth)
        ELSE IF Area(left) > 0 /\ Area(right) > 0
        THEN Box(mid_x - LineHalfWidth, b.miny - Margin, mid_x + LineHalfWidth, b.maxy + Margin)
        ELSE NoLine

\* _find_bisecting_line: the cutting line is the boundary of a thin box, kept
\* here as that box.  bounds of an empty polygon cannot be used: None.
FindBisectingLine(polygon) ==
    IF polygon = {} THEN NoLine
    ELSE
    LET b == Bounds(polygon)
        mid_x == (b.minx + b.maxx) \div 2
        left == Intersection(polygon, Box(b.minx - Margin, b.miny - Margin, mid_x, b.maxy + Margin))
        right == Intersection(polygon, Box(mid_x, b.miny - Margin, b.maxx + Margin, b.maxy + Margin))
        mid_y == (b.miny + b.maxy) \div 2
        top == Intersection(polygon, Box(b.minx - Margin, mid_y, b.maxx + Margin, b.maxy + Margin))
        bottom == Intersection(polygon, Box(b.minx - Margin, b.miny - Margin, b.maxx + Margin, mid_y))
    IN  IF Area(left) > 0 /\ Area(right) > 0
        THEN Box(mid_x - LineHalfWidth, b.miny - Margin, mid_x + LineHalfWidth, b.maxy + Margin)
        ELSE IF Area(top) > 0 /\ Area(bottom) > 0
        THEN Box(b.minx - Margin, mid_y - LineHalfWidth, b.maxx + Margin, mid_y + LineHalfWidth)
        ELSE NoLine

\* ---------------------------------------------------------- Polygon Splitter
\* shapely.ops.split(polygon, line).geoms: the faces the ring cuts the polygon
\* into, those inside the ring's box and those outside it
SplitGeoms(polygon, line) ==
    LET b == Bounds(polygon)
        lox == Min2(b.minx, line.x0) - 1
        hix == Max2(b.maxx, line.x1) + 1
        loy == Min2(b.miny, line.y0) - 1
        hiy == Max2(b.maxy, line.y1) + 1
        inside == Intersection(polygon, line)
        outside == Intersection(polygon, Box(lox, loy, line.x0, hiy))
                   \cup Intersection(polygon, Box(line.x1, loy, hix, hiy))
                   \cup Intersection(polygon, Box(line.x0, loy, line.x1, line.y0))
                   \cup Intersection(polygon, Box(line.x0, line.y1, line.x1, hiy))
    IN  Components(inside) \cup Components(outside)

\* a splitter that hands back the polygon itself as the right piece
SplitPolygonKeepingWhole(polygon, line) ==
    LET geoms == SplitGeoms(polygon, line)
    IN  IF Cardinality(geoms) >= 2
        THEN {<<f, polygon>> : f \in geoms}
        ELSE {<<polygon, None>>}

\* a splitter whose failure answer loses the polygon
SplitPolygonLosingPolygon(polygon, line) ==
    LET geoms == SplitGeoms(polygon, line)
    IN  IF Cardinality(geoms) >= 2
        THEN {<<f, g>> : f \in geoms, g \in geoms} \ {<<f, f>> : f \in geoms}
        ELSE {<<None, None>>}

\* _split_polygon: the pairs (left, right) it can return.  The order of
\* result.geoms is the order polygonize emits the faces in, which the code
\* does not control: any two faces can be the first two.
SplitPolygon(polygon, line) ==
    LET geoms == SplitGeoms(polygon, line)
    IN  IF Cardinality(geoms) >= 2
        THEN {<<f, g>> : f \in geoms, g \in geoms} \ {<<f, f>> : f \in geoms}
        ELSE {<<polygon, None>>}

\* ------------------------------------------------------ Compartment Partitioner
VARIABLES
    boundary_geom,      \* the boundary polygon of the request
    num_compartments,   \* the requested number of compartments
    total_area,         \* boundary_geom.area; target_area is total_area / num_compartments
    compartments,       \* the accumulator: a sequence of [polygon, compartment_id]
    stack,              \* the active calls of _recursive_bisection, innermost last
    status,             \* of generate_compartments: "called", "bisecting", "returned", "failed"
    warned              \* compartment ids _validate_compartments logged a warning for

pvars == <<boundary_geom, num_compartments, total_area, compartments, stack, status, warned>>

\* the state of the sample plot generator (defined below)
VARIABLES
    gdf_compartments,           \* the rows of the compartment file: [compartment_id, geometry]
    sampling_intensity,         \* the fraction [num, den]
    min_plots_per_compartment,
    distribution_method,        \* "systematic" or "random"
    plot_counter,               \* self.plot_counter
    sample_plots,               \* the plots of the compartments already processed
    idx,                        \* the row being processed (0 before the first)
    num_plots,                  \* the count planned for that row
    plots,                      \* the plots placed for that row so far
    cursor,                     \* systematic: grid cells examined; random: attempts
    shortfall,                  \* compartment ids the random placer logged a warning for
    sstatus,                    \* of generate_sample_plots
    counter_at_call             \* self.plot_counter as the request found it when called

svars == <<gdf_compartments, sampling_intensity, min_plots_per_compartment, distribution_method,
           plot_counter, sample_plots, idx, num_plots, plots, cursor, shortfall, sstatus,
           counter_at_call>>

vars == <<pvars, svars>>

\* the id numbered by the length before the append, without the + 1
CompartmentIdFromLen(comps) == <<"C">> \o Decimal(Len(comps))

\* f"C{len(compartments) + 1}"
CompartmentId(comps) == <<"C">> \o Decimal(Len(comps) + 1)

\* an acceptance test of 5% in place of 10%
WithinTargetStrict(polygon, total, n) ==
    ToleranceDen * Abs(n * Area(polygon) - total) < total

\* abs(polygon.area - target_area) < target_area * 0.1, with target_area = total / n
WithinTarget(polygon, total, n) ==
    AcceptDen * Abs(n * Area(polygon) - total) < total

\* an acceptance test without the depth cap
ShouldAcceptNoCap(polygon, depth, total, n) == WithinTarget(polygon, total, n)

\* an acceptance test without the area test
ShouldAcceptOnlyAtCap(polygon, depth, total, n) == depth > DepthCap

\* abs(polygon.area - target_area) < target_area * 0.1 or depth > 10
ShouldAccept(polygon, depth, total, n) == WithinTarget(polygon, total, n) \/ depth > DepthCap

\* a threshold check that lets one more compartment through
EnoughLate(comps, n) == Len(comps) > n

\* a recursion without its base case
EnoughNever(comps, n) == FALSE

\* len(compartments) >= num_compartments
Enough(comps, n) == Len(comps) >= n

\* boundary_geom.is_valid: every ring encloses area and the polygon does not
\* run over itself
IsValid(polygon) ==
    /\ \A r \in polygon : r.x0 < r.x1 /\ r.y0 < r.y1
    /\ \A r \in polygon, t \in polygon : r # t => ~Overlap({r}, {t})

Frame(polygon, depth) == [polygon |-> polygon, depth |-> depth, pc |-> "enter", right |-> None]

Top == stack[Len(stack)]
Pop == SubSeq(stack, 1, Len(stack) - 1)
Running(pc) == status = "bisecting" /\ stack # <<>> /\ Top.pc = pc

\* the boundaries partition requests are made with: the empty polygon, a
\* strip as wide as the cutting ring, rectangles, an L-shaped polygon, and two
\* invalid ones: a ring that encloses no area and a polygon that runs over itself
Rectangle(w, h) == {Box(0, 0, w, h)}
Boundaries ==
    {{}, Rectangle(2, 1), Rectangle(6, 2), Rectangle(14, 1), Rectangle(30, 1),
     {Box(0, 0, 31, 8), Box(31, 0, 62, 7)},
     {Box(0, 0, 0, 4)}, {Box(0, 0, 4, 2), Box(2, 0, 6, 2)}}

PartitionInit ==
    /\ boundary_geom \in Boundaries
    /\ num_compartments \in (-1)..MaxN
    /\ total_area = 0
    /\ compartments = <<>>
    /\ stack = <<>>
    /\ status = "called"
    /\ warned = {}

\* raise ValueError("Invalid boundary geometry"), re-raised by the except clause
RaiseInvalidGeometry ==
    /\ status = "called"
    /\ ~IsValid(boundary_geom)
    /\ status' = "failed"
    /\ UNCHANGED <<svars, boundary_geom, num_compartments, total_area, compartments, stack, warned>>

\* total_area / num_compartments divides by zero: the except clause raises ValueError
RaiseZeroDivision ==
    /\ status = "called"
    /\ IsValid(boundary_geom)
    /\ num_compartments = 0
    /\ total_area' = Area(boundary_geom)
    /\ status' = "failed"
    /\ UNCHANGED <<svars, boundary_geom, num_compartments, compartments, stack, warned>>

\* generate_compartments up to the call of _recursive_bisection
GenerateCompartments ==
    /\ status = "called"
    /\ IsValid(boundary_geom)
    /\ num_compartments # 0
    /\ total_area' = Area(boundary_geom)
    /\ stack' = <<Frame(boundary_geom, 0)>>
    /\ status' = "bisecting"
    /\ UNCHANGED <<svars, boundary_geom, num_compartments, compartments, warned>>

\* if len(compartments) >= num_compartments: return compartments
ReturnEnough ==
    /\ Running("enter")
    /\ Enough(compartments, num_compartments)
    /\ stack' = Pop
    /\ UNCHANGED <<svars, boundary_geom, num_compartments, total_area, compartments, status, warned>>

\* the polygon is close enough to the target area, or the depth cap is passed
AcceptPolygon ==
    /\ Running("enter")
    /\ ~Enough(compartments, num_compartments)
    /\ ShouldAccept(Top.polygon, Top.depth, total_area, num_compartments)
    /\ compartments' = Append(compartments,
            [polygon |-> Top.polygon, compartment_id |-> CompartmentId(compartments)])
    /\ stack' = Pop
    /\ UNCHANGED <<svars, boundary_geom, num_compartments, total_area, status, warned>>

\* a failed bisection that is raised to the caller
AcceptUnbisectedRaising ==
    /\ Running("enter")
    /\ ~Enough(compartments, num_compartments)
    /\ ~ShouldAccept(Top.polygon, Top.depth, total_area, num_compartments)
    /\ FindBisectingLine(Top.polygon) = NoLine
    /\ status' = "failed"
    /\ UNCHANGED <<svars, boundary_geom, num_compartments, total_area, compartments, stack, warned>>

\* line is None: the polygon becomes a compartment as it is
AcceptUnbisected ==
    /\ Running("enter")
    /\ ~Enough(compartments, num_compartments)
    /\ ~ShouldAccept(Top.polygon, Top.depth, total_area, num_compartments)
    /\ FindBisectingLine(Top.polygon) = NoLine
    /\ compartments' = Append(compartments,
            [polygon |-> Top.polygon, compartment_id |-> CompartmentId(compartments)])
    /\ stack' = Pop
    /\ UNCHANGED <<svars, boundary_geom, num_compartments, total_area, status, warned>>

\* a traversal that visits the right piece of a split before the left one
SplitAndRecurseRightFirst ==
    /\ Running("enter")
    /\ ~Enough(compartments, num_compartments)
    /\ ~ShouldAccept(Top.polygon, Top.depth, total_area, num_compartments)
    /\ FindBisectingLine(Top.polygon) # NoLine
    /\ \E lr \in SplitPolygon(Top.polygon, FindBisectingLine(Top.polygon)) :
          LET here == [Top EXCEPT !.pc = "right_done", !.right = lr[2]]
              l == IF lr[1] # None /\ Area(lr[1]) > 0
                   THEN <<Frame(lr[1], Top.depth + 1)>> ELSE <<>>
              r == IF lr[2] # None /\ Area(lr[2]) > 0
                   THEN <<Frame(lr[2], Top.depth + 1)>> ELSE <<>>
          IN  stack' = Pop \o <<here>> \o l \o r
    /\ UNCHANGED <<svars, boundary_geom, num_compartments, total_area, compartments, status, warned>>

\* a recursion into the left piece that does not count the level
SplitAndRecurseLeftSameDepth ==
    /\ Running("enter")
    /\ ~Enough(compartments, num_compartments)
    /\ ~ShouldAccept(Top.polygon, Top.depth, total_area, num_compartments)
    /\ FindBisectingLine(Top.polygon) # NoLine
    /\ \E lr \in SplitPolygon(Top.polygon, FindBisectingLine(Top.polygon)) :
          LET here == [Top EXCEPT !.pc = "left_done", !.right = lr[2]]
          IN  stack' = IF lr[1] # None /\ Area(lr[1]) > 0
                       THEN Pop \o <<here, Frame(lr[1], Top.depth)>>
                       ELSE Pop \o <<here>>
    /\ UNCHANGED <<svars, boundary_geom, num_compartments, total_area, compartments, status, warned>>

\* split the polygon and recurse into the left piece
SplitAndRecurseLeft ==
    /\ Running("enter")
    /\ ~Enough(compartments, num_compartments)
    /\ ~ShouldAccept(Top.polygon, Top.depth, total_area, num_compartments)
    /\ FindBisectingLine(Top.polygon) # NoLine
    /\ \E lr \in SplitPolygon(Top.polygon, FindBisectingLine(Top.polygon)) :
          LET here == [Top EXCEPT !.pc = "left_done", !.right = lr[2]]
          IN  stack' = IF lr[1] # None /\ Area(lr[1]) > 0
                       THEN Pop \o <<here, Frame(lr[1], Top.depth + 1)>>
                       ELSE Pop \o <<here>>
    /\ UNCHANGED <<svars, boundary_geom, num_compartments, total_area, compartments, status, warned>>

\* after the left recursion: recurse into the right piece if there is one
RecurseRight ==
    /\ Running("left_done")
    /\ LET here == [Top EXCEPT !.pc = "right_done"]
       IN  stack' = IF Top.right # None /\ Area(Top.right) > 0
                    THEN Pop \o <<here, Frame(Top.right, Top.depth + 1)>>
                    ELSE Pop \o <<here>>
    /\ UNCHANGED <<svars, boundary_geom, num_compartments, total_area, compartments, status, warned>>

\* return compartments, at the end of _recursive_bisection
ReturnFromSplit ==
    /\ Running("right_done")
    /\ stack' = Pop
    /\ UNCHANGED <<svars, boundary_geom, num_compartments, total_area, compartments, status, warned>>

\* _validate_compartments: the ids whose area deviates from the mean by more
\* than 5% of it (abs(area - mean) > mean * 0.05), which are logged, not rejected
RECURSIVE SumAreas(_, _)
SumAreas(comps, i) == IF i = 0 THEN 0 ELSE Area(comps[i].polygon) + SumAreas(comps, i - 1)

Deviating(comps) ==
    LET k == Len(comps)
        sum == SumAreas(comps, k)
    IN  {comps[i].compartment_id : i \in
            {j \in 1..k : ToleranceDen * Abs(k * Area(comps[j].polygon) - sum) > sum}}

\* generate_compartments after _recursive_bisection returned: the compartments
\* are validated, put in a frame and written.  gdf.to_file of a frame without
\* rows raises in some releases of geopandas and only warns in others.
ValidateAndReturn ==
    /\ status = "bisecting"
    /\ stack = <<>>
    /\ warned' = Deviating(compartments)
    /\ status' \in (IF compartments = <<>> THEN {"returned", "failed"} ELSE {"returned"})
    /\ UNCHANGED <<svars, boundary_geom, num_compartments, total_area, compartments, stack>>

PartitionNext ==
    \/ RaiseInvalidGeometry
    \/ RaiseZeroDivision
    \/ GenerateCompartments
    \/ ReturnEnough
    \/ AcceptPolygon
    \/ AcceptUnbisected
    \/ SplitAndRecurseLeft
    \/ RecurseRight
    \/ ReturnFromSplit
    \/ ValidateAndReturn

\* --------------------------------------------------------- Sampling Planner
\* round(n / d) of Python 3 for n >= 0, d > 0: to the nearest integer, a tie to the even one
Round(n, d) ==
    LET q == n \div d
        r == n % d
    IN  IF 2 * r < d THEN q
        ELSE IF 2 * r > d THEN q + 1
        ELSE IF q % 2 = 0 THEN q ELSE q + 1

\* the count with int() alone, which truncates, in place of int(round())
PlanCountTruncated(area_m2, intensity, minimum) ==
    Max2(minimum, (area_m2 * intensity.num) \div (intensity.den * HectareDivisor))

\* the count with min() in place of max()
PlanCountSmaller(area_m2, intensity, minimum) ==
    Min2(minimum, Round(area_m2 * intensity.num, intensity.den * HectareDivisor))

\* max(min_plots_per_compartment, int(round(area_m2 * sampling_intensity / 10000)))
PlanCount(area_m2, intensity, minimum) ==
    Max2(minimum, Round(area_m2 * intensity.num, intensity.den * HectareDivisor))

\* -------------------------------------------------------------- Plot Placer
\* shapely.geometry.Point(x, y) with x = xn / den and y = yn / den
Point(xn, yn, den) == [xn |-> xn, yn |-> yn, den |-> den]

\* the rectangle r covers the quadrant of directions (dx, dy) next to the point
CoversQuadrant(r, pt, dx, dy) ==
    /\ IF dx = 1 THEN r.x0 * pt.den <= pt.xn /\ pt.xn < r.x1 * pt.den
                 ELSE r.x0 * pt.den < pt.xn /\ pt.xn <= r.x1 * pt.den
    /\ IF dy = 1 THEN r.y0 * pt.den <= pt.yn /\ pt.yn < r.y1 * pt.den
                 ELSE r.y0 * pt.den < pt.yn /\ pt.yn <= r.y1 * pt.den

\* a containment test against the bounding box of the polygon only
ContainsBounds(polygon, pt) ==
    LET b == Bounds(polygon)
    IN  /\ b.minx * pt.den < pt.xn /\ pt.xn < b.maxx * pt.den
        /\ b.miny * pt.den < pt.yn /\ pt.yn < b.maxy * pt.den

\* compartment_geometry.contains(point): the point lies in the interior
Contains(polygon, pt) ==
    \A dx \in {-1, 1}, dy \in {-1, 1} : \E r \in polygon : CoversQuadrant(r, pt, dx, dy)

\* int((num_plots ** 0.5) + 1)
GridSizeFloor(n) == CHOOSE r \in 0..n : r * r <= n /\ (r + 1) * (r + 1) > n

GridSize(n) == (CHOOSE r \in 0..n : r * r <= n /\ (r + 1) * (r + 1) > n) + 1

\* the grid point of cell (i, j): minx + (i + 0.5) * x_step, miny + (j + 0.5) * y_step
GridPoint(polygon, grid_size, i, j) ==
    LET b == Bounds(polygon)
    IN  Point(2 * grid_size * b.minx + (2 * i + 1) * (b.maxx - b.minx),
              2 * grid_size * b.miny + (2 * j + 1) * (b.maxy - b.miny),
              2 * grid_size)

\* random.uniform(minx, maxx), random.uniform(miny, maxy): the draws considered
\* are the centres of the four quarters of the bounding box
RandomPoints(polygon) ==
    LET b == Bounds(polygon)
    IN  {Point(4 * b.minx + kx * (b.maxx - b.minx), 4 * b.miny + ky * (b.maxy - b.miny), 4) :
            kx \in {1, 3}, ky \in {1, 3}}

\* the id without the zero padding of :02d
PlotIdUnpadded(counter) == <<"S", "P", "-">> \o Decimal(counter)

\* f"SP-{self.plot_counter:02d}"
PlotId(counter) ==
    LET d == Decimal(counter)
    IN  <<"S", "P", "-">> \o (IF Len(d) < 2 THEN <<"0">> \o d ELSE d)

Plot(counter, compartment_id, pt) ==
    [plot_id |-> PlotId(counter), compartment_id |-> compartment_id, geometry |-> pt]

Row == gdf_compartments[idx]

\* the compartment geometries of the files sampling requests are made with
Shapes ==
    {{Box(0, 0, 1000, 500)},                          \* area 500000
     {Box(0, 0, 1500, 600)},                          \* area 900000
     {Box(0, 0, 500, 500)},                           \* area 250000
     {Box(0, 0, 2, 1), Box(0, 1, 1, 2)},              \* an L
     {Box(0, 0, 2, 1), Box(1, 1, 3, 2), Box(2, 2, 4, 3), Box(3, 3, 4, 4)}}   \* a staircase

\* a compartment file of k rows, ids C1..Ck as the partitioner writes them
Files ==
    UNION {{[i \in 1..k |-> [compartment_id |-> <<"C">> \o Decimal(i), geometry |-> f[i]]] :
              f \in [1..k -> Shapes]} : k \in 0..MaxCompartments}

Intensities == {[num |-> 0, den |-> 1], [num |-> 2, den |-> 100], [num |-> 1, den |-> 1]}
Minimums == {-1, 0, 1, 5}

RECURSIVE PlannedTotal(_, _, _, _)
PlannedTotal(file, intensity, minimum, k) ==
    IF k = 0 THEN 0
    ELSE PlanCount(Area(file[k].geometry), intensity, minimum)
         + PlannedTotal(file, intensity, minimum, k - 1)

SamplingInit ==
    /\ gdf_compartments \in Files
    /\ sampling_intensity \in Intensities
    /\ min_plots_per_compartment \in Minimums
    /\ distribution_method \in {"systematic", "random"}
    /\ distribution_method = "random" =>
          PlannedTotal(gdf_compartments, sampling_intensity, min_plots_per_compartment,
                       Len(gdf_compartments)) <= MaxRandomPlots
    /\ plot_counter = 0
    /\ sample_plots = <<>>
    /\ idx = 0
    /\ num_plots = 0
    /\ plots = <<>>
    /\ cursor = 0
    /\ shortfall = {}
    /\ sstatus = "called"
    /\ counter_at_call = 0

\* if gdf_compartments.empty: raise ValueError, re-raised by the except clause
RaiseEmptyFile ==
    /\ sstatus = "called"
    /\ gdf_compartments = <<>>
    /\ sstatus' = "failed"
    /\ UNCHANGED <<pvars, counter_at_call, gdf_compartments, sampling_intensity, min_plots_per_compartment,
                   distribution_method, plot_counter, sample_plots, idx, num_plots, plots,
                   cursor, shortfall>>

\* a request that goes on without looking at the file
BeginRequestUnchecked ==
    /\ sstatus = "called"
    /\ sample_plots' = <<>>
    /\ plot_counter' = 0
    /\ idx' = 0
    /\ sstatus' = "looping"
    /\ UNCHANGED <<pvars, counter_at_call, gdf_compartments, sampling_intensity, min_plots_per_compartment,
                   distribution_method, num_plots, plots, cursor, shortfall>>

\* a request that goes on counting where the last one stopped
BeginRequestKeepingCounter ==
    /\ sstatus = "called"
    /\ gdf_compartments # <<>>
    /\ sample_plots' = <<>>
    /\ idx' = 0
    /\ sstatus' = "looping"
    /\ UNCHANGED <<pvars, counter_at_call, gdf_compartments, sampling_intensity,
                   min_plots_per_compartment, distribution_method, plot_counter, num_plots,
                   plots, cursor, shortfall>>

\* sample_plots = []; self.plot_counter = 0
BeginRequest ==
    /\ sstatus = "called"
    /\ gdf_compartments # <<>>
    /\ sample_plots' = <<>>
    /\ plot_counter' = 0
    /\ idx' = 0
    /\ sstatus' = "looping"
    /\ UNCHANGED <<pvars, counter_at_call, gdf_compartments, sampling_intensity, min_plots_per_compartment,
                   distribution_method, num_plots, plots, cursor, shortfall>>

\* a loop that starts the plot counter anew for every row
BeginCompartmentResetting ==
    /\ sstatus = "looping"
    /\ idx < Len(gdf_compartments)
    /\ idx' = idx + 1
    /\ num_plots' = PlanCount(Area(gdf_compartments[idx + 1].geometry), sampling_intensity,
                              min_plots_per_compartment)
    /\ plots' = <<>>
    /\ cursor' = 0
    /\ plot_counter' = 0
    /\ sstatus' = IF distribution_method = "systematic" THEN "systematic" ELSE "random"
    /\ UNCHANGED <<pvars, counter_at_call, gdf_compartments, sampling_intensity, min_plots_per_compartment,
                   distribution_method, sample_plots, shortfall>>

\* the next row: plan its count and enter the placer of the chosen method
BeginCompartment ==
    /\ sstatus = "looping"
    /\ idx < Len(gdf_compartments)
    /\ idx' = idx + 1
    /\ num_plots' = PlanCount(Area(gdf_compartments[idx + 1].geometry), sampling_intensity,
                              min_plots_per_compartment)
    /\ plots' = <<>>
    /\ cursor' = 0
    /\ sstatus' = IF distribution_method = "systematic" THEN "systematic" ELSE "random"
    /\ UNCHANGED <<pvars, counter_at_call, gdf_compartments, sampling_intensity, min_plots_per_compartment,
                   distribution_method, plot_counter, sample_plots, shortfall>>

\* a grid loop that does not stop at the planned count
SystematicMoreNoStop ==
    /\ sstatus = "systematic"
    /\ cursor < GridSize(num_plots) * GridSize(num_plots)

SystematicMore ==
    /\ sstatus = "systematic"
    /\ cursor < GridSize(num_plots) * GridSize(num_plots)
    /\ Len(plots) < num_plots

SystematicCandidate ==
    GridPoint(Row.geometry, GridSize(num_plots),
              cursor \div GridSize(num_plots), cursor % GridSize(num_plots))

\* a grid point within the compartment becomes a plot
SystematicAccept ==
    /\ SystematicMore
    /\ Contains(Row.geometry, SystematicCandidate)
    /\ plot_counter' = plot_counter + 1
    /\ plots' = Append(plots, Plot(plot_counter + 1, Row.compartment_id, SystematicCandidate))
    /\ cursor' = cursor + 1
    /\ UNCHANGED <<pvars, counter_at_call, gdf_compartments, sampling_intensity, min_plots_per_compartment,
                   distribution_method, sample_plots, idx, num_plots, shortfall, sstatus>>

\* a grid point outside the compartment is passed over
SystematicSkip ==
    /\ SystematicMore
    /\ ~Contains(Row.geometry, SystematicCandidate)
    /\ cursor' = cursor + 1
    /\ UNCHANGED <<pvars, counter_at_call, gdf_compartments, sampling_intensity, min_plots_per_compartment,
                   distribution_method, plot_counter, sample_plots, idx, num_plots, plots,
                   shortfall, sstatus>>

\* return plots; sample_plots.extend(plots)
SystematicReturn ==
    /\ sstatus = "systematic"
    /\ ~SystematicMore
    /\ sample_plots' = sample_plots \o plots
    /\ sstatus' = "looping"
    /\ UNCHANGED <<pvars, counter_at_call, gdf_compartments, sampling_intensity, min_plots_per_compartment,
                   distribution_method, plot_counter, idx, num_plots, plots, cursor, shortfall>>

\* a loop test that allows one attempt more than the budget
RandomMoreOneExtra ==
    /\ sstatus = "random"
    /\ Len(plots) < num_plots
    /\ cursor <= num_plots * RandomAttemptFactor

\* while len(plots) < num_plots and attempts < max_attempts
RandomMore ==
    /\ sstatus = "random"
    /\ Len(plots) < num_plots
    /\ cursor < num_plots * RandomAttemptFactor

\* a drawn point within the compartment becomes a plot
RandomAccept ==
    /\ RandomMore
    /\ \E pt \in RandomPoints(Row.geometry) :
          /\ Contains(Row.geometry, pt)
          /\ plots' = Append(plots, Plot(plot_counter + 1, Row.compartment_id, pt))
    /\ plot_counter' = plot_counter + 1
    /\ cursor' = cursor + 1
    /\ UNCHANGED <<pvars, counter_at_call, gdf_compartments, sampling_intensity, min_plots_per_compartment,
                   distribution_method, sample_plots, idx, num_plots, shortfall, sstatus>>

\* a drawn point outside the compartment only uses up an attempt
RandomMiss ==
    /\ RandomMore
    /\ \E pt \in RandomPoints(Row.geometry) : ~Contains(Row.geometry, pt)
    /\ cursor' = cursor + 1
    /\ UNCHANGED <<pvars, counter_at_call, gdf_compartments, sampling_intensity, min_plots_per_compartment,
                   distribution_method, plot_counter, sample_plots, idx, num_plots, plots,
                   shortfall, sstatus>>

\* the warning when fewer than num_plots were placed; return plots; sample_plots.extend(plots)
RandomReturn ==
    /\ sstatus = "random"
    /\ ~RandomMore
    /\ shortfall' = IF Len(plots) < num_plots THEN shortfall \cup {Row.compartment_id}
                    ELSE shortfall
    /\ sample_plots' = sample_plots \o plots
    /\ sstatus' = "looping"
    /\ UNCHANGED <<pvars, counter_at_call, gdf_compartments, sampling_intensity, min_plots_per_compartment,
                   distribution_method, plot_counter, idx, num_plots, plots, cursor>>

\* every row is processed: the plots are written and the path returned
FinishRequest ==
    /\ sstatus = "looping"
    /\ idx = Len(gdf_compartments)
    /\ sample_plots # <<>>
    /\ sstatus' = "returned"
    /\ UNCHANGED <<pvars, counter_at_call, gdf_compartments, sampling_intensity, min_plots_per_compartment,
                   distribution_method, plot_counter, sample_plots, idx, num_plots, plots,
                   cursor, shortfall>>

\* gpd.GeoDataFrame(sample_plots, geometry='geometry') of a list without rows:
\* the frame has no geometry column, the constructor raises and the except
\* clause re-raises ValueError
RaiseNoPlots ==
    /\ sstatus = "looping"
    /\ idx = Len(gdf_compartments)
    /\ sample_plots = <<>>
    /\ sstatus' = "failed"
    /\ UNCHANGED <<pvars, counter_at_call, gdf_compartments, sampling_intensity, min_plots_per_compartment,
                   distribution_method, plot_counter, sample_plots, idx, num_plots, plots,
                   cursor, shortfall>>

SamplingNext ==
    \/ RaiseNoPlots
    \/ RaiseEmptyFile
    \/ BeginRequest
    \/ BeginCompartment
    \/ SystematicAccept
    \/ SystematicSkip
    \/ SystematicReturn
    \/ RandomAccept
    \/ RandomMiss
    \/ RandomReturn
    \/ FinishRequest

\* ----------------------------------------------------------- specifications
PartitionIdle ==
    /\ boundary_geom = {}
    /\ num_compartments = 1
    /\ total_area = 0
    /\ compartments = <<>>
    /\ stack = <<>>
    /\ status = "idle"
    /\ warned = {}

SamplingIdle ==
    /\ gdf_compartments = <<>>
    /\ sampling_intensity = [num |-> 0, den |-> 1]
    /\ min_plots_per_compartment = 0
    /\ distribution_method = "systematic"
    /\ plot_counter = 0
    /\ sample_plots = <<>>
    /\ idx = 0
    /\ num_plots = 0
    /\ plots = <<>>
    /\ cursor = 0
    /\ shortfall = {}
    /\ sstatus = "idle"
    /\ counter_at_call = 0

\* one partition request
Init == PartitionInit /\ SamplingIdle
Next == PartitionNext
Spec == Init /\ [][Next]_vars

\* one sampling request
InitSampling == SamplingInit /\ PartitionIdle
SpecSampling == InitSampling /\ [][SamplingNext]_vars

\* the requests made of one generator, one after the other: files of
\* L-shaped compartments, the default intensity, both methods
RequestFiles ==
    {f \in Files : \A k \in 1..Len(f) : f[k].geometry = {Box(0, 0, 2, 1), Box(0, 1, 1, 2)}}
RequestIntensities == {[num |-> 2, den |-> 100]}
RequestMinimums == {1, 5}

\* generate_sample_plots is called again on the generator: the arguments and
\* the locals are those of the new call, self.plot_counter is what the last
\* call left
NextRequest ==
    /\ sstatus \in {"returned", "failed"}
    /\ \E f \in RequestFiles, i \in RequestIntensities, m \in RequestMinimums,
          d \in {"systematic", "random"} :
          /\ d = "random" => PlannedTotal(f, i, m, Len(f)) <= MaxRandomPlots
          /\ gdf_compartments' = f
          /\ sampling_intensity' = i
          /\ min_plots_per_compartment' = m
          /\ distribution_method' = d
    /\ counter_at_call' = plot_counter
    /\ sample_plots' = <<>>
    /\ idx' = 0
    /\ num_plots' = 0
    /\ plots' = <<>>
    /\ cursor' = 0
    /\ shortfall' = {}
    /\ sstatus' = "called"
    /\ UNCHANGED <<pvars, plot_counter>>

InitRequests ==
    /\ InitSampling
    /\ gdf_compartments \in RequestFiles
    /\ sampling_intensity \in RequestIntensities
    /\ min_plots_per_compartment \in RequestMinimums

RequestsNext == SamplingNext \/ NextRequest
SpecRequests == InitRequests /\ [][RequestsNext]_vars

\* ------------------------------------------------------------------ claims
\* reading an identifier back: the number its decimal digits spell
DigitValue(c) == CHOOSE d \in 0..9 : DigitChars[d + 1] = c
RECURSIVE DigitsValue(_)
DigitsValue(ds) ==
    IF Len(ds) = 0 THEN 0
    ELSE 10 * DigitsValue(SubSeq(ds, 1, Len(ds) - 1)) + DigitValue(ds[Len(ds)])
IsDigits(ds) == Len(ds) >= 1 /\ \A i \in 1..Len(ds) : \E d \in 0..9 : DigitChars[d + 1] = ds[i]
Tail1(id) == SubSeq(id, 2, Len(id))
Tail3(id) == SubSeq(id, 4, Len(id))

\* C1: the ids of the k compartments in the accumulator are "C" followed by a
\* number, the numbers are exactly 1..k, and no id occurs twice.
C1_SequentialIds ==
    LET k == Len(compartments)
        ids == {compartments[i].compartment_id : i \in 1..k}
    IN  /\ \A id \in ids : id[1] = "C" /\ IsDigits(Tail1(id))
        /\ {DigitsValue(Tail1(id)) : id \in ids} = 1..k
        /\ Cardinality(ids) = k

C1_Witness ==
    /\ status = "returned"
    /\ Len(compartments) = 3
    /\ compartments[3].compartment_id = <<"C", "3">>

\* C2: a partition request for n >= 1 compartments of a boundary of positive
\* area returns exactly n compartments.
C2_ExactlyRequested ==
    (status = "returned" /\ num_compartments >= 1 /\ Area(boundary_geom) > 0)
        => Len(compartments) = num_compartments

\* C3: in a returned partition every compartment's area is within 5% of the
\* mean area of the returned compartments.
C3_AreaBalance ==
    status = "returned" =>
        LET k == Len(compartments)
            sum == SumAreas(compartments, k)
        IN  \A i \in 1..k : ToleranceDen * Abs(k * Area(compartments[i].polygon) - sum) <= sum

\* C4: the areas of the returned compartments add up to the area of the
\* boundary polygon.
C4_AreaConserved ==
    (status = "returned" /\ num_compartments >= 1)
        => SumAreas(compartments, Len(compartments)) = Area(boundary_geom)

\* C5: no two compartments of the accumulator overlap in their interior.
C5_NoOverlap ==
    \A i \in 1..Len(compartments), j \in 1..Len(compartments) :
        i < j => ~Overlap(compartments[i].polygon, compartments[j].polygon)

C5_Witness ==
    /\ status = "returned"
    /\ Len(compartments) >= 2
    /\ \E i \in 1..Len(compartments), j \in 1..Len(compartments) :
          /\ i < j
          /\ \E r \in compartments[i].polygon, t \in compartments[j].polygon : Touching(r, t)

\* the plots a compartment id owns in the output
PlotsOf(id) == {i \in 1..Len(sample_plots) : sample_plots[i].compartment_id = id}

\* C6: after a sampling request every compartment of the file owns at least
\* min_plots_per_compartment plots.
C6_PlotMinimum ==
    sstatus = "returned" =>
        \A k \in 1..Len(gdf_compartments) :
            Cardinality(PlotsOf(gdf_compartments[k].compartment_id)) >= min_plots_per_compartment

\* how much of the neighbourhood of the point the rectangle r covers, in
\* quarters: 4 strictly inside, 2 on an edge, 1 at a corner, 0 elsewhere
Quarters(r, pt) ==
    LET xin == r.x0 * pt.den < pt.xn /\ pt.xn < r.x1 * pt.den
        xon == pt.xn = r.x0 * pt.den \/ pt.xn = r.x1 * pt.den
        yin == r.y0 * pt.den < pt.yn /\ pt.yn < r.y1 * pt.den
        yon == pt.yn = r.y0 * pt.den \/ pt.yn = r.y1 * pt.den
    IN  IF xin /\ yin THEN 4
        ELSE IF (xin /\ yon) \/ (xon /\ yin) THEN 2
        ELSE IF xon /\ yon THEN 1
        ELSE 0

RECURSIVE QuartersCovered(_, _)
QuartersCovered(polygon, pt) ==
    IF polygon = {} THEN 0
    ELSE LET r == CHOOSE x \in polygon : TRUE
         IN  Quarters(r, pt) + QuartersCovered(polygon \ {r}, pt)

\* the point is interior to the polygon: its whole neighbourhood is covered
InInterior(polygon, pt) == QuartersCovered(polygon, pt) = 4

\* C7: every plot carries the id of the row that was being processed when it
\* was made and lies within that row's geometry: the plots of the row in
\* progress belong to it, and every plot of the output belongs to the one
\* processed row of its compartment id.
C7_TaggedAndContained ==
    /\ \A i \in 1..Len(plots) :
          /\ plots[i].compartment_id = gdf_compartments[idx].compartment_id
          /\ InInterior(gdf_compartments[idx].geometry, plots[i].geometry)
    /\ \A i \in 1..Len(sample_plots) :
          \E k \in 1..idx :
             /\ sample_plots[i].compartment_id = gdf_compartments[k].compartment_id
             /\ InInterior(gdf_compartments[k].geometry, sample_plots[i].geometry)

C7_Witness ==
    /\ sstatus = "returned"
    /\ \E i \in 1..Len(sample_plots) : sample_plots[i].compartment_id = <<"C", "2">>
    /\ \E k \in 1..Len(gdf_compartments) :
          /\ Cardinality(gdf_compartments[k].geometry) > 1
          /\ PlotsOf(gdf_compartments[k].compartment_id) # {}
          /\ Cardinality(PlotsOf(gdf_compartments[k].compartment_id)) < num_plots

\* C8: the i-th plot of the output has the id "SP-" followed by the decimal
\* number i, written with a leading zero when it has one digit and with no
\* other leading zero.
C8_PlotIdSequence ==
    \A i \in 1..Len(sample_plots) :
        LET id == sample_plots[i].plot_id
        IN  /\ Len(id) >= 5
            /\ SubSeq(id, 1, 3) = <<"S", "P", "-">>
            /\ IsDigits(Tail3(id))
            /\ DigitsValue(Tail3(id)) = i
            /\ Len(id) > 5 => id[4] # "0"

C8_Witness ==
    /\ sstatus = "returned"
    /\ Len(sample_plots) >= 100
    /\ sample_plots[9].plot_id = <<"S", "P", "-", "0", "9">>
    /\ sample_plots[100].plot_id = <<"S", "P", "-", "1", "0", "0">>

\* a row's count has been planned
Planned == sstatus \in {"systematic", "random"}
\* area * intensity / 10000 as the fraction PlanNum / PlanDen
PlanNum == Area(gdf_compartments[idx].geometry) * sampling_intensity.num
PlanDen == sampling_intensity.den * 10000

\* C9: the planned count is the larger of the minimum and an integer nearest
\* to area * intensity / 10000; for area 500000, intensity 0.02 and minimum 5
\* it is 5.
C9_PlanFormula ==
    Planned =>
        /\ \E r \in 0..(PlanNum \div PlanDen) + 1 :
              /\ 2 * Abs(r * PlanDen - PlanNum) <= PlanDen
              /\ num_plots = IF min_plots_per_compartment > r
                             THEN min_plots_per_compartment ELSE r
        /\ ( /\ Area(gdf_compartments[idx].geometry) = 500000
             /\ sampling_intensity = [num |-> 2, den |-> 100]
             /\ min_plots_per_compartment = 5 ) => num_plots = 5

C9_Witness ==
    /\ Planned
    /\ Area(gdf_compartments[idx].geometry) = 500000
    /\ sampling_intensity = [num |-> 2, den |-> 100]
    /\ min_plots_per_compartment = 5
    /\ num_plots = 5

\* C10: the planned count is never below the minimum.
C10_AtLeastMinimum == Planned => num_plots >= min_plots_per_compartment

C10_Witness ==
    /\ Planned
    /\ min_plots_per_compartment = -1
    /\ sampling_intensity.num = 0
    /\ num_plots = 0

\* C11: a partition request with num_compartments below 1 (zero or negative)
\* fails with an error and returns no compartments.
C11_FailsBelowOne == num_compartments < 1 => status # "returned"

\* C12: a partition request fails and produces no compartments when the
\* boundary is invalid, in particular when it has zero area.
C12_InvalidOrZeroAreaFails ==
    ( /\ num_compartments >= 1
      /\ ~IsValid(boundary_geom) \/ Area(boundary_geom) = 0 ) => status # "returned"

\* C13: a sampling request on an empty compartment file fails, and it fails
\* before any sample point is placed.
C13_EmptyFileFails ==
    gdf_compartments = <<>> =>
        /\ sstatus \in {"called", "failed"}
        /\ sample_plots = <<>>
        /\ plots = <<>>
        /\ plot_counter = 0

C13_Witness == gdf_compartments = <<>> /\ sstatus = "failed"

\* C14: a sampling request never fails because a compartment yielded fewer
\* plots than planned: a request on a file with rows, for which plots were
\* planned, completes.
C14_ShortfallNeverFails ==
    ( /\ gdf_compartments # <<>>
      /\ PlannedTotal(gdf_compartments, sampling_intensity, min_plots_per_compartment,
                      Len(gdf_compartments)) > 0 ) => sstatus # "failed"

\* the systematic placer has returned for the first compartment, a rectangle
C16_RectangleDone ==
    /\ sstatus = "looping"
    /\ idx = 1
    /\ distribution_method = "systematic"
    /\ \E r \in gdf_compartments[1].geometry :
          gdf_compartments[1].geometry = {r} /\ r.x0 < r.x1 /\ r.y0 < r.y1

\* C16: for a compartment that is one axis-aligned rectangle of positive width
\* and height, systematic placement returns exactly the planned number of
\* plots, the larger of the minimum and the rounded area * intensity / 10000.
C16_RectangleFull ==
    C16_RectangleDone =>
        \E r \in 0..(PlanNum \div PlanDen) + 1 :
            /\ 2 * Abs(r * PlanDen - PlanNum) <= PlanDen
            /\ Len(sample_plots) = IF min_plots_per_compartment > r
                                   THEN min_plots_per_compartment ELSE r

C16_Witness ==
    /\ C16_RectangleDone
    /\ Area(gdf_compartments[1].geometry) = 900000
    /\ sampling_intensity = [num |-> 1, den |-> 1]
    /\ Len(sample_plots) = 90

\* a call of _recursive_bisection is at its first statement
Entered == status = "bisecting" /\ stack # <<>> /\ stack[Len(stack)].pc = "enter"
\* that call began with the accumulator at or over the requested count
AtThreshold == Entered /\ Len(compartments) >= num_compartments
\* that call's polygon is within 10% of the target area, or deeper than 10
Acceptable ==
    \/ 10 * Abs(num_compartments * Area(stack[Len(stack)].polygon) - Area(boundary_geom))
          < Area(boundary_geom)
    \/ stack[Len(stack)].depth > 10
\* the step appends that call's polygon, unchanged, under the id C{len + 1},
\* and ends the call without a deeper one
AppendsAndReturns ==
    LET k == Len(compartments)
    IN  /\ Len(compartments') = k + 1
        /\ SubSeq(compartments', 1, k) = compartments
        /\ compartments'[k + 1].polygon = stack[Len(stack)].polygon
        /\ compartments'[k + 1].compartment_id[1] = "C"
        /\ IsDigits(Tail1(compartments'[k + 1].compartment_id))
        /\ DigitsValue(Tail1(compartments'[k + 1].compartment_id)) = k + 1
        /\ stack' = SubSeq(stack, 1, Len(stack) - 1)
        /\ status' = "bisecting"

\* C17 as stated: the traversal can return more than n compartments, because
\* a sibling of the split that filled the accumulator is still accepted before
\* the threshold check stops it: a call entered at the threshold still appends.
C17_SiblingStillAppends ==
    [][(AtThreshold /\ num_compartments >= 1)
          => Len(compartments') > Len(compartments)]_vars

\* C17, amended: the traversal never holds or returns more than n
\* compartments (none for n < 1); a sibling entered once the accumulator holds
\* n entries is not appended.
C17_NeverMoreThanRequested ==
    Len(compartments) <= (IF num_compartments >= 1 THEN num_compartments ELSE 0)

C17_Witness ==
    /\ status = "bisecting"
    /\ num_compartments >= 2
    /\ Len(compartments) = num_compartments
    /\ \E i \in 1..Len(stack) :
          /\ stack[i].pc = "left_done"
          /\ stack[i].right # None
          /\ Area(stack[i].right) > 0

\* C18: a call entered while the accumulator holds at least n entries returns
\* at once: the accumulator is as it was, no split is made and no deeper call
\* begins, and the call's polygon is in no compartment.
C18_ReturnsAtThreshold ==
    [][AtThreshold =>
          /\ compartments' = compartments
          /\ stack' = SubSeq(stack, 1, Len(stack) - 1)
          /\ status' = "bisecting"
          /\ \A i \in 1..Len(compartments') :
                compartments'[i].polygon # stack[Len(stack)].polygon]_vars

C18_Witness ==
    /\ AtThreshold
    /\ num_compartments = 2
    /\ stack[Len(stack)].depth = 1
    /\ Area(stack[Len(stack)].polygon) > 0

\* C19: a call entered with fewer than n entries accumulated, whose polygon is
\* within 10% of the target area or deeper than 10, appends the polygon
\* unchanged as C{len + 1}, len being the length before the append, and
\* recurses no further.
C19_AcceptsAsNext ==
    [][(Entered /\ Len(compartments) < num_compartments /\ Acceptable)
          => AppendsAndReturns]_vars

C19_Witness ==
    /\ boundary_geom = Rectangle(30, 1)
    /\ num_compartments = 2
    /\ compartments = <<[polygon |-> {Box(0, 0, 14, 1)}, compartment_id |-> <<"C", "1">>]>>

\* C20: when the bisector finds no line for a polygon the call has to cut, the
\* polygon is appended as it is under the next id and the traversal goes on;
\* the request does not fail for it.
C20_UnbisectedIsKept ==
    [][(/\ Entered
        /\ Len(compartments) < num_compartments
        /\ ~Acceptable
        /\ FindBisectingLine(stack[Len(stack)].polygon) = NoLine)
          => AppendsAndReturns]_vars

C20_Witness ==
    /\ status = "returned"
    /\ boundary_geom = {}
    /\ compartments = <<[polygon |-> {}, compartment_id |-> <<"C", "1">>]>>

\* the number a compartment id carries
IdNumber(id) == DigitsValue(Tail1(id))
\* a compartment made from the right piece of the split a frame has made
FromRight(fr, i) == Overlap(compartments[i].polygon, fr.right)
\* a compartment made from another part of the frame's polygon
FromLeft(fr, i) ==
    Overlap(compartments[i].polygon, fr.polygon) /\ ~Overlap(compartments[i].polygon, fr.right)
\* the frames that have split their polygon in two
SplitFrames ==
    {f \in 1..Len(stack) : stack[f].pc \in {"left_done", "right_done"} /\ stack[f].right # None}

\* C21: the traversal is depth-first, left before right: a compartment from
\* the right piece of a split is appended only after the left recursion has
\* ended, after every compartment from the left piece and under a larger id
\* number.
C21_LeftBeforeRight ==
    \A f \in SplitFrames :
       \A j \in 1..Len(compartments) :
          FromRight(stack[f], j) =>
             /\ stack[f].pc = "right_done"
             /\ \A i \in 1..Len(compartments) :
                   FromLeft(stack[f], i) =>
                      /\ i < j
                      /\ IdNumber(compartments[i].compartment_id)
                            < IdNumber(compartments[j].compartment_id)

C21_Witness ==
    \E f \in SplitFrames :
       \E i \in 1..Len(compartments), j \in 1..Len(compartments) :
          FromLeft(stack[f], i) /\ FromRight(stack[f], j)

\* some rectangle of the polygon has area on the low (high) side of x = m
AreaLeftOf(polygon, m) == \E r \in polygon : r.x0 < r.x1 /\ r.y0 < r.y1 /\ r.x0 < m
AreaRightOf(polygon, m) == \E r \in polygon : r.x0 < r.x1 /\ r.y0 < r.y1 /\ r.x1 > m
\* the same for y = m
AreaBelow(polygon, m) == \E r \in polygon : r.x0 < r.x1 /\ r.y0 < r.y1 /\ r.y0 < m
AreaAbove(polygon, m) == \E r \in polygon : r.x0 < r.x1 /\ r.y0 < r.y1 /\ r.y1 > m
\* the cut is centred on the vertical (horizontal) line through m and crosses
\* the whole bounding box
VerticalThrough(line, polygon, m) ==
    /\ line # NoLine
    /\ line.x0 + line.x1 = 2 * m
    /\ line.x0 < line.x1
    /\ \A r \in polygon : line.y0 < r.y0 /\ r.y1 < line.y1
HorizontalThrough(line, polygon, m) ==
    /\ line # NoLine
    /\ line.y0 + line.y1 = 2 * m
    /\ line.y0 < line.y1
    /\ \A r \in polygon : line.x0 < r.x0 /\ r.x1 < line.x1

\* what C22 says of the bisector's answer for one polygon
BisectorAsClaimed(polygon) ==
    LET line == FindBisectingLine(polygon)
        xs == {r.x0 : r \in polygon} \cup {r.x1 : r \in polygon}
        ys == {r.y0 : r \in polygon} \cup {r.y1 : r \in polygon}
        mx == IF polygon = {} THEN 0 ELSE (SetMin(xs) + SetMax(xs)) \div 2
        my == IF polygon = {} THEN 0 ELSE (SetMin(ys) + SetMax(ys)) \div 2
        vertical == AreaLeftOf(polygon, mx) /\ AreaRightOf(polygon, mx)
        horizontal == AreaBelow(polygon, my) /\ AreaAbove(polygon, my)
    IN  /\ vertical => VerticalThrough(line, polygon, mx)
        /\ (~vertical /\ horizontal) => HorizontalThrough(line, polygon, my)
        /\ (line = NoLine) <=> (~vertical /\ ~horizontal)

\* C22: the bisector answers with the vertical cut through the horizontal
\* midpoint of the bounding box whenever both sides of it have area, with the
\* horizontal cut through the vertical midpoint only otherwise, and with None
\* exactly when neither cut has area on both sides; for the boundary and for
\* every polygon the traversal holds.
C22_VerticalFirst ==
    /\ IsValid(boundary_geom) => BisectorAsClaimed(boundary_geom)
    /\ \A f \in 1..Len(stack) : BisectorAsClaimed(stack[f].polygon)

C22_Witness ==
    /\ Running("left_done")
    /\ Top.polygon = {Box(0, 0, 31, 8), Box(31, 0, 62, 7)}
    /\ Top.right # None
    /\ FindBisectingLine(Top.polygon) = Box(30, -Margin, 32, 8 + Margin)

\* a call is about to cut its polygon: below the threshold, not acceptable,
\* and the bisector has found a line
Cutting ==
    /\ Entered
    /\ Len(compartments) < num_compartments
    /\ ~Acceptable
    /\ FindBisectingLine(stack[Len(stack)].polygon) # NoLine
\* the pieces the cut of that polygon yields
CutPieces == SplitGeoms(stack[Len(stack)].polygon, FindBisectingLine(stack[Len(stack)].polygon))

\* C23: the splitter hands back two distinct pieces of the split, and no
\* more, when the split yields two or more pieces; when it yields fewer it
\* hands back the original polygon unchanged together with None.  Seen in the
\* call that cuts: the left piece is what it recurses into, the right piece
\* what it keeps for later.
C23_TwoPiecesOrWhole ==
    [][Cutting =>
          /\ Len(stack') = Len(stack) + 1
          /\ stack'[Len(stack)].pc = "left_done"
          /\ IF Cardinality(CutPieces) >= 2
             THEN /\ stack'[Len(stack)].right \in CutPieces
                  /\ stack'[Len(stack')].polygon \in CutPieces \ {stack'[Len(stack)].right}
             ELSE /\ stack'[Len(stack)].right = None
                  /\ stack'[Len(stack')].polygon = stack[Len(stack)].polygon]_vars

\* a cut of the 6 x 2 rectangle has been made: three pieces, two of them kept
C23_Witness ==
    /\ Running("enter")
    /\ Len(stack) = 2
    /\ stack[1].polygon = Rectangle(6, 2)
    /\ stack[1].pc = "left_done"
    /\ Cardinality(SplitGeoms(stack[1].polygon, FindBisectingLine(stack[1].polygon))) = 3
    /\ stack[1].right # None
    /\ stack[1].right # Top.polygon

\* the steps a call entered at depth d can take at most, with those of the
\* calls it makes: one when it is deeper than 10, else the cut, the turn to
\* the right piece, the return and two deeper calls
RECURSIVE Work(_)
Work(d) == IF d > 10 THEN 1 ELSE 3 + 2 * Work(d + 1)
\* the steps left to a frame of the call stack
WorkLeft(fr) ==
    IF fr.pc = "enter" THEN Work(fr.depth)
    ELSE IF fr.pc = "left_done" THEN 2 + Work(fr.depth + 1)
    ELSE 1
RECURSIVE StackWork(_, _)
StackWork(st, k) == IF k = 0 THEN 0 ELSE WorkLeft(st[k]) + StackWork(st, k - 1)
\* the steps left to the request
RequestWork(st, s) ==
    IF s = "called" THEN Work(0) + 2
    ELSE IF s = "bisecting" THEN StackWork(st, Len(st)) + 1
    ELSE 0

\* C24: a partition request terminates: no call runs at a depth over 11,
\* because a call at a depth over 10 returns at the threshold check or accepts
\* its polygon, without a deeper call; this also holds when the splitter
\* keeps handing back the polygon it was given.  Every step uses up some of a
\* bounded amount of work, so no run goes on for ever.
C24_Terminates ==
    /\ [](\A f \in 1..Len(stack) : stack[f].depth <= 11 /\ f <= stack[f].depth + 1)
    /\ [][(Entered /\ stack[Len(stack)].depth > 10)
             => stack' = SubSeq(stack, 1, Len(stack) - 1)]_vars
    /\ [][RequestWork(stack', status') < RequestWork(stack, status)]_vars

\* the request on the strip no wider than the cutting ring has come to its
\* end after the splitter handed the strip back down to depth 11
C24_Witness ==
    /\ status = "returned"
    /\ boundary_geom = Rectangle(2, 1)
    /\ num_compartments = 2
    /\ Len(compartments) = 1
    /\ stack = <<>>

\* C29: a request for one compartment on a valid boundary of positive area
\* returns the boundary itself, unchanged, as the single compartment C1; the
\* one call accepts it, makes no cut and no deeper call.
C29_OneIsWhole ==
    (num_compartments = 1 /\ IsValid(boundary_geom) /\ Area(boundary_geom) > 0) =>
        /\ status # "failed"
        /\ Len(stack) <= 1
        /\ \A f \in 1..Len(stack) : stack[f].pc = "enter" /\ stack[f].polygon = boundary_geom
        /\ Len(compartments) <= 1
        /\ status = "returned" =>
              compartments = <<[polygon |-> boundary_geom, compartment_id |-> <<"C", "1">>]>>

C29_Witness ==
    /\ status = "returned"
    /\ num_compartments = 1
    /\ boundary_geom = {Box(0, 0, 31, 8), Box(31, 0, 62, 7)}
    /\ compartments = <<[polygon |-> boundary_geom, compartment_id |-> <<"C", "1">>]>>

\* the frames whose split failed: the splitter handed the polygon back with None
FailedSplitFrames ==
    {f \in 1..Len(stack) : stack[f].pc \in {"left_done", "right_done"} /\ stack[f].right = None}
\* how often a polygon is among the compartments
TimesAppended(polygon) ==
    Cardinality({i \in 1..Len(compartments) : compartments[i].polygon = polygon})

\* C30: when the splitter fails on a polygon the call has to cut, the call
\* recurses on that same polygon one level deeper and has no right piece; the
\* polygon is appended exactly once before that recursion returns, at depth
\* 11 at the latest: it is not lost and not appended twice.
C30_FailedSplitKeepsPolygon ==
    /\ [][(Cutting /\ Cardinality(CutPieces) < 2) =>
             stack' = SubSeq(stack, 1, Len(stack) - 1)
                      \o <<[polygon |-> stack[Len(stack)].polygon,
                            depth |-> stack[Len(stack)].depth,
                            pc |-> "left_done", right |-> None],
                           [polygon |-> stack[Len(stack)].polygon,
                            depth |-> stack[Len(stack)].depth + 1,
                            pc |-> "enter", right |-> None]>>]_vars
    /\ [](\A f \in FailedSplitFrames :
            /\ stack[f].depth <= 10
            /\ IF f < Len(stack)
               THEN /\ stack[f + 1].polygon = stack[f].polygon
                    /\ stack[f + 1].depth = stack[f].depth + 1
                    /\ TimesAppended(stack[f].polygon) <= 1
               ELSE TimesAppended(stack[f].polygon) = 1)

\* the chain of failed splits of a piece has ended at depth 11 and is
\* returning: the piece is among the compartments, once
C30_Witness ==
    /\ Running("left_done")
    /\ Top.right = None
    /\ Top.depth = 10
    /\ Len(compartments) = 2
    /\ compartments[2].polygon = Top.polygon
    /\ TimesAppended(Top.polygon) = 1

\* the random placer is at work on a row, or has returned from the last row begun
RandomAtWork == sstatus = "random"
RandomDone ==
    /\ sstatus \in {"looping", "returned", "failed"}
    /\ idx >= 1
    /\ distribution_method = "random"

\* C25: random placement for a compartment terminates: every pass of its loop
\* is one attempt more, it makes at most 10 * count attempts and returns at
\* most count points, and it returns fewer than count points only after
\* exactly 10 * count attempts.  (cursor is the number of attempts made.)
C25_RandomBudget ==
    /\ []((RandomAtWork \/ RandomDone) =>
            /\ cursor <= 10 * num_plots
            /\ Len(plots) <= num_plots
            /\ Len(plots) <= cursor)
    /\ [](RandomDone => (Len(plots) < num_plots => cursor = 10 * num_plots))
    /\ [][(RandomAtWork /\ sstatus' = "random") => cursor' = cursor + 1]_vars

\* a row has come back from the random placer short of its count
C25_Witness ==
    /\ RandomDone
    /\ sstatus = "looping"
    /\ num_plots >= 2
    /\ Len(plots) >= 1
    /\ Len(plots) < num_plots
    /\ cursor = 10 * num_plots

\* g = floor(sqrt(count)) + 1
GridSide(count) == CHOOSE g \in 1..(count + 1) : (g - 1) * (g - 1) <= count /\ g * g > count
\* the systematic placer is at work on a row, or has returned from the last row begun
SystematicAtWork == sstatus = "systematic"
SystematicDone ==
    /\ sstatus \in {"looping", "returned", "failed"}
    /\ idx >= 1
    /\ distribution_method = "systematic"

\* C26: systematic placement examines at most g * g grid candidates, with
\* g = floor(sqrt(count)) + 1 and so g * g >= count; it accepts only candidates
\* the compartment contains, stops as soon as count points are accepted and
\* never returns more than count; when the grid is used up first it returns
\* the fewer accepted points, without error.  (cursor is the number of
\* candidates examined.)
C26_GridBudget ==
    /\ []((SystematicAtWork \/ SystematicDone) =>
            /\ cursor <= GridSide(num_plots) * GridSide(num_plots)
            /\ GridSide(num_plots) * GridSide(num_plots) >= num_plots
            /\ Len(plots) <= num_plots
            /\ Len(plots) <= cursor
            /\ \A i \in 1..Len(plots) :
                  InInterior(gdf_compartments[idx].geometry, plots[i].geometry))
    /\ [][(SystematicAtWork
             /\ (Len(plots) = num_plots
                   \/ cursor = GridSide(num_plots) * GridSide(num_plots)))
            => (sstatus' = "looping" /\ plots' = plots
                  /\ sample_plots' = sample_plots \o plots)]_vars

\* a row has come back from the grid short of its count
C26_Witness ==
    /\ SystematicDone
    /\ sstatus = "looping"
    /\ Len(plots) >= 1
    /\ Len(plots) < num_plots
    /\ cursor = GridSide(num_plots) * GridSide(num_plots)

\* the plots made so far in the request, in the order they were made
PlotsSoFar == IF sstatus \in {"systematic", "random"} THEN sample_plots \o plots ELSE sample_plots
\* the number a plot id carries
PlotNumber(plot) == DigitsValue(Tail3(plot.plot_id))
\* the position in the file of the row a plot belongs to
RowOf(plot) ==
    CHOOSE k \in 1..Len(gdf_compartments) : gdf_compartments[k].compartment_id = plot.compartment_id

\* C27: the plot counter is shared by the rows of a request and not reset
\* between them: each plot takes the number after that of the plot made just
\* before it, also when that plot belongs to the previous row, and the rows
\* follow each other in the order of the file; so every plot of a row
\* processed earlier has a smaller number than every plot of a later one.
C27_CounterShared ==
    \A i \in 1..Len(PlotsSoFar) - 1 :
       /\ PlotNumber(PlotsSoFar[i + 1]) = PlotNumber(PlotsSoFar[i]) + 1
       /\ RowOf(PlotsSoFar[i]) <= RowOf(PlotsSoFar[i + 1])
       /\ RowOf(PlotsSoFar[i]) < RowOf(PlotsSoFar[i + 1])
             => \A k \in 1..i : PlotNumber(PlotsSoFar[k]) < PlotNumber(PlotsSoFar[i + 1])

\* a request over two rows has returned with plots of both
C27_Witness ==
    /\ sstatus = "returned"
    /\ Len(gdf_compartments) = 2
    /\ \E i \in 2..Len(sample_plots) - 1 :
          /\ RowOf(sample_plots[i]) = 1
          /\ RowOf(sample_plots[i + 1]) = 2
          /\ PlotNumber(sample_plots[i + 1]) = i + 1

\* C28: every sampling request sets the plot counter to 0 before it places
\* its first point: whatever the counter was when the request was called, its
\* plots are numbered SP-01, SP-02, ... and the counter counts its own plots.
C28_CounterReset ==
    /\ \A i \in 1..Len(PlotsSoFar) : PlotNumber(PlotsSoFar[i]) = i
    /\ PlotsSoFar # <<>> => PlotsSoFar[1].plot_id = <<"S", "P", "-", "0", "1">>
    /\ sstatus \in {"looping", "systematic", "random", "returned"}
          => plot_counter = Len(PlotsSoFar)

\* a request called on a generator whose counter an earlier request left at
\* 3 or more has returned plots numbered from SP-01
C28_Witness ==
    /\ sstatus = "returned"
    /\ counter_at_call >= 3
    /\ Len(sample_plots) >= 2
    /\ Len(sample_plots) # counter_at_call
    /\ sample_plots[1].plot_id = <<"S", "P", "-", "0", "1">>
====
